---- MODULE Spec2Model ----
(***************************************************************************)
(* Temporary voice channel bot: the voice-state handler of main.go, the    *)
(* Registry (userVoiceStates), the two tracker lists and the channel       *)
(* directory the handler talks to.                                         *)
(*                                                                         *)
(* The handler holds h.mu from its first to its last statement, so one     *)
(* notification is one atomic step.  Every directory call of a step is     *)
(* appended to `calls`, with the source line that issues it as `site`.     *)
(***************************************************************************)
EXTENDS Integers, Sequences, FiniteSets, TLC

VARIABLES
    userVoiceStates,      \* h.userVoiceStates: a map, user -> last seen channel ID
    temporaryChannels,    \* h.temporaryChannels (a slice, in append order)
    temporaryCategories,  \* h.temporaryCategories (a slice, in append order)
    channels,             \* the directory: existing channel ID -> attributes
    nextID,               \* the ID the directory gives the next created channel
    evt,                  \* the notification processed last
    before,               \* before.ChannelID as read by that processing
    calls,                \* the directory calls that processing issued, in order
    redelivered,          \* that notification equals the one processed before it
    old,                  \* the Registry and the tracker lists before that processing
    hist,                 \* history of the clone path, by channel ID
    mu,                   \* h.mu: the invocation that holds it, 0 when free
    pc,                   \* each concurrent invocation's position in the handler
    arg,                  \* each concurrent invocation's evt and locals
    served                \* the notifications handed to concurrent invocations

vars == <<userVoiceStates, temporaryChannels, temporaryCategories, channels,
          nextID, evt, before, calls, redelivered, old, hist, mu, pc, arg, served>>

----------------------------------------------------------------------------
(* Bounds *)

\* Largest channel ID the directory hands out.
MaxID == 8

\* Largest recipient count a fetched channel reports.
MaxRecipients == 1

\* Notifications the gateway hands to concurrent invocations in ConcSpec.
MaxNotifications == 3

----------------------------------------------------------------------------
(* Identifiers *)

\* discord.NullSnowflake is ^Snowflake(0): all ones, -1 as a signed integer.
NullSnowflake == -1

\* The guild's members.
Users == {"ann", "bob"}

\* The member whose notifications Spec follows.  The handler reads and writes
\* only the Registry entry of the notification's user (lines 78-80).
OneUser == {"ann"}

\* The clone-trigger literal of line 95 (the emoji prefix is left out).
CloneTriggerName == "bark"

TeamsTriggerName == "teams"

\* Snowflake.IsValid: neither the zero value nor NullSnowflake.
IsValid(s) == ~(s = 0 \/ s = NullSnowflake)

\* Snowflake.String: empty for an invalid snowflake, else its decimal digits.
String(s) == IF ~IsValid(s) THEN "" ELSE ToString(s)

\* possibleChannelName, line 82
possibleChannelName(u) == u \o "'s room"

----------------------------------------------------------------------------
(* The directory *)

Chan(name, type, guild, parent) ==
    [name |-> name, type |-> type, guild |-> guild, parent |-> parent]

\* The guilds' channels before the bot creates any: a category holding the
\* clone trigger, the teams trigger in a second guild, an ordinary channel.
InitChannels ==
    (1 :> Chan("lobby", "category", 1, NullSnowflake)) @@
    (2 :> Chan(CloneTriggerName, "voice", 1, 1)) @@
    (3 :> Chan(TeamsTriggerName, "voice", 2, NullSnowflake)) @@
    (4 :> Chan("general", "voice", 1, NullSnowflake))

FirstID == Cardinality(DOMAIN InitChannels) + 1

NoChannel ==
    [id |-> 0, name |-> "", type |-> "", guild |-> 0, parent |-> 0, recipients |-> 0]

AsChannel(dir, id, rcp) ==
    [id |-> id, name |-> dir[id].name, type |-> dir[id].type,
     guild |-> dir[id].guild, parent |-> dir[id].parent, recipients |-> rcp]

NoCall ==
    [op |-> "", site |-> 0, id |-> 0, guild |-> 0, name |-> "", type |-> "",
     parent |-> 0, user |-> "", ok |-> FALSE, ret |-> 0, rcp |-> 0,
     listed |-> <<>>]

\* The k-th directory call of a notification fails when k is in `fails`.
Failing(s, fails) == (Len(s.calls) + 1) \in fails

Log(s, c) == [s EXCEPT !.calls = Append(@, c)]

RECURSIVE SortedSeq(_)
SortedSeq(S) ==
    IF S = {} THEN <<>>
    ELSE LET m == CHOOSE x \in S : \A y \in S : x <= y
         IN  <<m>> \o SortedSeq(S \ {m})

\* h.s.Channel(id)
GetChannel(s, site, id, fails, rcp) ==
    LET ok == id \in DOMAIN s.dir /\ ~Failing(s, fails)
        ch == IF ok THEN AsChannel(s.dir, id, rcp) ELSE NoChannel
    IN  [s  |-> Log(s, [NoCall EXCEPT !.op = "GetChannel", !.site = site,
                                      !.id = id, !.ok = ok, !.name = ch.name,
                                      !.type = ch.type, !.guild = ch.guild,
                                      !.parent = ch.parent,
                                      !.rcp = ch.recipients]),
         ok |-> ok,
         ch |-> ch]

\* h.s.Channels(guildID)
ListChannels(s, site, guild, fails) ==
    LET ok   == ~Failing(s, fails)
        ids  == SortedSeq({c \in DOMAIN s.dir : s.dir[c].guild = guild})
        list == IF ok THEN [i \in 1..Len(ids) |-> AsChannel(s.dir, ids[i], 0)]
                ELSE <<>>
    IN  [s  |-> Log(s, [NoCall EXCEPT !.op = "ListChannels", !.site = site,
                                      !.guild = guild, !.ok = ok,
                                      !.listed = [i \in 1..Len(list) |->
                                                    <<list[i].id, list[i].parent>>]]),
         ok |-> ok,
         list |-> list]

\* h.s.CreateChannel(guildID, data).  A channel created without a valid
\* CategoryID has no parent, which a later fetch reads as NullSnowflake.
CreateChannel(s, site, guild, data, fails) ==
    LET ok  == ~Failing(s, fails)
        id  == s.next
        par == IF IsValid(data.parent) THEN data.parent ELSE NullSnowflake
        rec == Chan(data.name, data.type, guild, par)
        t   == Log(s, [NoCall EXCEPT !.op = "CreateChannel", !.site = site,
                                     !.guild = guild, !.name = data.name,
                                     !.type = data.type, !.parent = data.parent,
                                     !.ok = ok, !.ret = IF ok THEN id ELSE 0])
    IN  [s  |-> IF ok THEN [t EXCEPT !.dir = (id :> rec) @@ s.dir, !.next = id + 1]
                ELSE t,
         ok |-> ok,
         ch |-> IF ok THEN AsChannel((id :> rec), id, 0)
                ELSE NoChannel]

\* h.s.DeleteChannel(id, reason).  The children of a deleted category stay,
\* without a parent.
DeleteChannel(s, site, id, fails) ==
    LET ok == id \in DOMAIN s.dir /\ ~Failing(s, fails)
        t  == Log(s, [NoCall EXCEPT !.op = "DeleteChannel", !.site = site,
                                    !.id = id, !.ok = ok])
    IN  [s  |-> IF ok
                THEN [t EXCEPT !.dir =
                        [c \in DOMAIN s.dir \ {id} |->
                            IF s.dir[c].parent = id
                            THEN [s.dir[c] EXCEPT !.parent = NullSnowflake]
                            ELSE s.dir[c]]]
                ELSE t,
         ok |-> ok]

\* h.s.ModifyMember(guildID, userID, {VoiceChannel: id})
MoveMember(s, site, guild, user, id, fails) ==
    LET ok == id \in DOMAIN s.dir /\ ~Failing(s, fails)
    IN  [s  |-> Log(s, [NoCall EXCEPT !.op = "MoveMember", !.site = site,
                                      !.guild = guild, !.user = user,
                                      !.id = id, !.ok = ok]),
         ok |-> ok]

----------------------------------------------------------------------------
(* contains and remove, lines 200-216 *)

contains(slice, elem) == \E i \in 1..Len(slice) : slice[i] = elem

\* remove deletes the first occurrence only.
remove(slice, elem) ==
    IF contains(slice, elem)
    THEN LET i == CHOOSE k \in 1..Len(slice) :
                     slice[k] = elem /\ \A j \in 1..(k - 1) : slice[j] # elem
         IN  SubSeq(slice, 1, i - 1) \o SubSeq(slice, i + 1, Len(slice))
    ELSE slice

----------------------------------------------------------------------------
(* The handler, lines 73-198 *)

\* h.userVoiceStates[id], line 78: a missing key reads as the zero value
Lookup(reg, u) == IF u \in DOMAIN reg THEN reg[u] ELSE 0

StoreNothing(reg, u, v) == reg

\* h.userVoiceStates[id] = v, line 80
Store(reg, u, v) == [w \in DOMAIN reg \cup {u} |-> IF w = u THEN v ELSE reg[w]]

FailedNever(r) == FALSE

\* x := <a call>; <the statements after it>: the call is made once and its
\* result is what the statements F after it read.
Bind(x, F(_)) == CHOOSE r \in {F(v) : v \in {x}} : TRUE

\* err != nil after a directory call
Failed(r) == ~r.ok

\* return: the rest of the handler is skipped
Return(s) == [s EXCEPT !.done = TRUE]

IsJoinAnyBefore(b, ch) == IsValid(ch) /\ b # ch

\* lines 86 and 88: the user had no channel and now has one
IsJoin(b, ch) == String(b) = "" /\ IsValid(ch) /\ b # ch

IsLeaveAfterOnly(b, ch) == String(ch) = ""

IsLeaveAnyChange(b, ch) == IsValid(b) /\ b # ch

\* line 158: the user had a channel and now has none
IsLeave(b, ch) == IsValid(b) /\ String(ch) = ""

IsEmptyAlways(beforeChannel) == TRUE

\* len(beforeChannel.DMRecipients) == 0, lines 167 and 179
IsEmpty(beforeChannel) == beforeChannel.recipients = 0

CloneChannelDataNoParent(afterChannel, u) ==
    [name |-> possibleChannelName(u), type |-> "voice", parent |-> 0]

\* api.CreateChannelData of lines 96-100
CloneChannelData(afterChannel, u) ==
    [name |-> possibleChannelName(u), type |-> "voice",
     parent |-> afterChannel.parent]

\* api.CreateChannelData of lines 116-119, 125-129 and 135-139
CategoryData(u) ==
    [name |-> possibleChannelName(u), type |-> "category", parent |-> 0]

TextData(temporaryCategory) ==
    [name |-> "text", type |-> "text", parent |-> temporaryCategory.id]

VoiceData(temporaryCategory) ==
    [name |-> "voice", type |-> "voice", parent |-> temporaryCategory.id]

markChannelTwice(tc, tempChannel) ==
    Append(Append(tc, tempChannel.id), tempChannel.id)

\* line 112
markChannel(tc, tempChannel) == Append(tc, tempChannel.id)

markCategoryByCategory(tcat, tempChannel, temporaryCategory) ==
    Append(tcat, temporaryCategory.id)

\* line 153: the voice channel's ID is what is tracked
markCategory(tcat, tempChannel, temporaryCategory) == Append(tcat, tempChannel.id)

unmarkChannelNever(tc, beforeChannel) == tc

\* line 172
unmarkChannel(tc, beforeChannel) == remove(tc, beforeChannel.id)

\* line 194: the category's ID is what is removed
unmarkCategory(tcat, beforeChannel, categoryID) == remove(tcat, categoryID)

CloneMovedIgnoringError(m, c) == [m.s EXCEPT !.tc = markChannel(@, c.ch)]

\* lines 108-112, with m the result of the move and c of the creation
CloneMoved(m, c) ==
    IF Failed(m) THEN Return(m.s)
    ELSE [m.s EXCEPT !.tc = markChannel(@, c.ch)]

\* lines 101-107, with c the result of the creation
CloneCreated(c, u, afterChannel, fails) ==
    IF Failed(c) THEN Return(c.s)
    ELSE Bind(MoveMember(c.s, 105, afterChannel.guild, u, c.ch.id, fails),
              LAMBDA m : CloneMoved(m, c))

\* lines 95-113
CloneBranch(s, u, afterChannel, fails) ==
    Bind(CreateChannel(s, 96, afterChannel.guild,
                       CloneChannelData(afterChannel, u), fails),
         LAMBDA c : CloneCreated(c, u, afterChannel, fails))

TeamsMovedIgnoringError(m, v, c) ==
    [m.s EXCEPT !.tcat = markCategory(@, v.ch, c.ch)]

\* lines 148-153, with m the result of the move
TeamsMoved(m, v, c) ==
    IF Failed(m) THEN Return(m.s)
    ELSE [m.s EXCEPT !.tcat = markCategory(@, v.ch, c.ch)]

\* lines 140-147, with v the result of creating the voice channel
TeamsVoiceCreated(v, c, u, fails) ==
    IF Failed(v) THEN Return(v.s)
    ELSE Bind(MoveMember(v.s, 145, c.ch.guild, u, v.ch.id, fails),
              LAMBDA m : TeamsMoved(m, v, c))

\* lines 130-139, with t the result of creating the text channel
TeamsTextCreated(t, c, u, fails) ==
    IF Failed(t) THEN Return(t.s)
    ELSE Bind(CreateChannel(t.s, 135, c.ch.guild, VoiceData(c.ch), fails),
              LAMBDA v : TeamsVoiceCreated(v, c, u, fails))

\* lines 120-129, with c the result of creating the category
TeamsCategoryCreated(c, u, fails) ==
    IF Failed(c) THEN Return(c.s)
    ELSE Bind(CreateChannel(c.s, 125, c.ch.guild, TextData(c.ch), fails),
              LAMBDA t : TeamsTextCreated(t, c, u, fails))

\* lines 115-154
TeamsBranch(s, u, afterChannel, fails) ==
    Bind(CreateChannel(s, 116, afterChannel.guild, CategoryData(u), fails),
         LAMBDA c : TeamsCategoryCreated(c, u, fails))

TeamsIfNamedAlways(a, u, afterChannel, fails) ==
    IF a.done THEN a ELSE TeamsBranch(a, u, afterChannel, fails)

\* line 115, reached unless the clone branch returned
TeamsIfNamed(a, u, afterChannel, fails) ==
    IF a.done THEN a
    ELSE IF afterChannel.name = TeamsTriggerName
         THEN TeamsBranch(a, u, afterChannel, fails) ELSE a

\* lines 90-154, with g the result of fetching the joined channel
JoinFetched(g, u, fails) ==
    IF Failed(g) THEN Return(g.s)
    ELSE Bind(IF g.ch.name = CloneTriggerName
              THEN CloneBranch(g.s, u, g.ch, fails) ELSE g.s,
              LAMBDA a : TeamsIfNamed(a, u, g.ch, fails))

\* lines 88-155
JoinBranch(s, u, ch, fails) ==
    Bind(GetChannel(s, 89, ch, fails, 0), LAMBDA g : JoinFetched(g, u, fails))

\* lines 169-172, with d the result of the deletion: a failure is only logged
StandaloneDeleted(d, beforeChannel) ==
    [d.s EXCEPT !.tc = unmarkChannel(@, beforeChannel)]

StandaloneTeardownUntracked(s, beforeChannel, fails) ==
    IF IsEmpty(beforeChannel)
    THEN Bind(DeleteChannel(s, 168, beforeChannel.id, fails),
              LAMBDA d : StandaloneDeleted(d, beforeChannel))
    ELSE s

\* lines 166-174
StandaloneTeardown(s, beforeChannel, fails) ==
    IF contains(s.tc, beforeChannel.id) /\ IsEmpty(beforeChannel)
    THEN Bind(DeleteChannel(s, 168, beforeChannel.id, fails),
              LAMBDA d : StandaloneDeleted(d, beforeChannel))
    ELSE s

IsChildOfAny(channel, categoryID) == TRUE

\* line 186
IsChildOf(channel, categoryID) == channel.parent = categoryID

RECURSIVE DeleteChildrenStopOnError(_, _, _, _, _)
DeleteChildrenStopOnError(s, list, i, categoryID, fails) ==
    IF i > Len(list) THEN s
    ELSE IF list[i].parent = categoryID
         THEN Bind(DeleteChannel(s, 187, list[i].id, fails),
                   LAMBDA d : IF Failed(d) THEN d.s
                              ELSE DeleteChildrenStopOnError(d.s, list, i + 1,
                                                             categoryID, fails))
         ELSE DeleteChildrenStopOnError(s, list, i + 1, categoryID, fails)

\* lines 185-189: every listed child is tried, whatever the earlier results
RECURSIVE DeleteChildren(_, _, _, _, _)
DeleteChildren(s, list, i, categoryID, fails) ==
    IF i > Len(list) THEN s
    ELSE IF IsChildOf(list[i], categoryID)
         THEN Bind(DeleteChannel(s, 187, list[i].id, fails),
                   LAMBDA d : DeleteChildren(d.s, list, i + 1, categoryID, fails))
         ELSE DeleteChildren(s, list, i + 1, categoryID, fails)

\* lines 191-194, with d the result of deleting the category
CategoryDeleted(d, beforeChannel, categoryID) ==
    [d.s EXCEPT !.tcat = unmarkCategory(@, beforeChannel, categoryID)]

\* lines 181-194, with l the result of listing the guild's channels
CategoryListed(l, category, beforeChannel, categoryID, fails) ==
    IF Failed(l) THEN Return(l.s)
    ELSE Bind(DeleteChildren(l.s, l.list, 1, categoryID, fails),
              LAMBDA k :
                  Bind(DeleteChannel(k, 190, category.id, fails),
                       LAMBDA d : CategoryDeleted(d, beforeChannel, categoryID)))

CategoryFetchedUnguarded(g, beforeChannel, categoryID, fails) ==
    IF ~Failed(g)
    THEN Bind(ListChannels(g.s, 180, g.ch.guild, fails),
              LAMBDA l : CategoryListed(l, g.ch, beforeChannel, categoryID, fails))
    ELSE g.s

\* lines 179-195, with g the result of fetching the category
CategoryFetched(g, beforeChannel, categoryID, fails) ==
    IF ~Failed(g) /\ IsEmpty(beforeChannel)
    THEN Bind(ListChannels(g.s, 180, g.ch.guild, fails),
              LAMBDA l : CategoryListed(l, g.ch, beforeChannel, categoryID, fails))
    ELSE g.s

\* lines 176-196
CategoryTeardown(s, beforeChannel, fails) ==
    IF beforeChannel.parent # 0 /\ contains(s.tcat, beforeChannel.id)
    THEN Bind(GetChannel(s, 178, beforeChannel.parent, fails, 0),
              LAMBDA g : CategoryFetched(g, beforeChannel, beforeChannel.parent, fails))
    ELSE s

\* lines 161-196, with g the result of fetching the left channel
LeaveFetched(g, fails) ==
    IF Failed(g) THEN Return(g.s)
    ELSE Bind(StandaloneTeardown(g.s, g.ch, fails),
              LAMBDA a : CategoryTeardown(a, g.ch, fails))

\* lines 160-196
LeaveBranch(s, b, fails, rcp) ==
    Bind(GetChannel(s, 160, b, fails, rcp), LAMBDA g : LeaveFetched(g, fails))

\* line 158, reached unless the join branch returned
LeaveIfLeft(s, b, ch, fails, rcp) ==
    IF ~s.done /\ IsLeave(b, ch) THEN LeaveBranch(s, b, fails, rcp) ELSE s

\* lines 86-197, with b the Registry entry read at line 78
Dispatch(s, b, u, ch, fails, rcp) ==
    Bind(IF IsJoin(b, ch) THEN JoinBranch(s, u, ch, fails) ELSE s,
         LAMBDA a : LeaveIfLeft(a, b, ch, fails, rcp))

\* The tracker lists and the directory as the handler finds them.
Entry ==
    [tc |-> temporaryChannels, tcat |-> temporaryCategories, dir |-> channels,
     next |-> nextID, calls |-> <<>>, done |-> FALSE]

\* The whole handler on notification (u, ch): `fails` are the positions of the
\* directory calls that fail, rcp the recipient count the left channel reports.
VoiceStateUpdate(u, ch, fails, rcp) ==
    Bind(Entry, LAMBDA s : Dispatch(s, Lookup(userVoiceStates, u), u, ch, fails, rcp))

----------------------------------------------------------------------------
(* Notifications *)

VoiceChannels == {c \in DOMAIN channels : channels[c].type = "voice"}

\* A notification names an existing voice channel, or no channel.
Targets == VoiceChannels \cup {NullSnowflake}

\* Channels a join into ch may create (lines 96, 116, 125, 135).
Creates(ch) ==
    IF ch \notin DOMAIN channels THEN 0
    ELSE IF channels[ch].name = CloneTriggerName THEN 1
    ELSE IF channels[ch].name = TeamsTriggerName THEN 3
    ELSE 0

\* The calls the handler issues on (u, ch) when none fails: a run in which
\* some fail issues no more.
CallCount(u, ch, rcp) == Len(VoiceStateUpdate(u, ch, {}, rcp).calls)

\* The failure patterns of the calls of one notification.  A join stops at
\* its first failed call, so that call's position is the whole pattern; a
\* leave goes on after a failed deletion, so any set of positions is one.
FailChoices(u, ch, rcp) ==
    IF IsLeave(Lookup(userVoiceStates, u), ch)
    THEN SUBSET (1..CallCount(u, ch, rcp))
    ELSE {{}} \cup {{k} : k \in 1..CallCount(u, ch, rcp)}

RcpChoices(u, ch) ==
    IF IsLeave(Lookup(userVoiceStates, u), ch) THEN 0..MaxRecipients ELSE {0}

\* The users the Registry has in channel c.
Occupants(reg, c) == {v \in DOMAIN reg : reg[v] = c}

SiteIDs(cs, site, okOnly) ==
    {cs[i].id : i \in {j \in 1..Len(cs) :
                         cs[j].site = site /\ (okOnly => cs[j].ok)}}

SiteRets(cs, site) ==
    {cs[i].ret : i \in {j \in 1..Len(cs) : cs[j].site = site /\ cs[j].ok}}

\* What lines 82-197 leave, s being what Dispatch returns, b the Registry
\* entry read at line 78 and reg the Registry that was read.
Recorded(s, u, ch, b, reg) ==
    /\ temporaryChannels' = s.tc
    /\ temporaryCategories' = s.tcat
    /\ channels' = s.dir
    /\ nextID' = s.next
    /\ evt' = [user |-> u, ch |-> ch]
    /\ before' = b
    /\ calls' = s.calls
    /\ redelivered' = (evt = [user |-> u, ch |-> ch])
    /\ old' = [reg |-> reg, tc |-> temporaryChannels,
               tcat |-> temporaryCategories, last |-> hist.last]
    /\ hist' = [created   |-> hist.created \cup SiteRets(s.calls, 96),
                categories |-> hist.categories \cup SiteRets(s.calls, 116),
                moved     |-> hist.moved \cup SiteIDs(s.calls, 105, TRUE),
                deleted   |-> hist.deleted \cup SiteIDs(s.calls, 168, TRUE),
                delIssued |-> hist.delIssued \cup SiteIDs(s.calls, 168, FALSE),
                last      |-> Store(hist.last, u, ch)]

\* The state the handler leaves when it runs alone, s being what
\* VoiceStateUpdate returns.
Handled(s, u, ch) ==
    /\ userVoiceStates' = Store(userVoiceStates, u, ch)
    /\ Recorded(s, u, ch, Lookup(userVoiceStates, u), userVoiceStates)
    /\ UNCHANGED <<mu, pc, arg, served>>

Deliver(u, ch, R, NoFailure) ==
    /\ ch \in Targets
    /\ nextID + Creates(ch) - 1 <= MaxID
    /\ \E rcp \in R :
       \E fails \in IF NoFailure THEN {{}} ELSE FailChoices(u, ch, rcp) :
       \E s \in {VoiceStateUpdate(u, ch, fails, rcp)} : Handled(s, u, ch)

\* One notification, with any pattern of failing directory calls.
onVoiceStateUpdate(u, ch) ==
    Deliver(u, ch, RcpChoices(u, ch), FALSE)

\* The goroutines that may run the handler at the same time.
Threads == {1, 2}

\* The Registry, the tracker lists and the directory.
Shared ==
    [reg |-> userVoiceStates, tc |-> temporaryChannels,
     tcat |-> temporaryCategories, dir |-> channels, next |-> nextID]

NoArg ==
    [user |-> "", ch |-> 0, before |-> 0, fails |-> {}, rcp |-> 0,
     seen |-> [reg |-> <<>>, tc |-> <<>>, tcat |-> <<>>, dir |-> <<>>, next |-> 0]]

Init ==
    /\ userVoiceStates = <<>>
    /\ temporaryChannels = <<>>
    /\ temporaryCategories = <<>>
    /\ channels = InitChannels
    /\ nextID = FirstID
    /\ evt = [user |-> "", ch |-> 0]
    /\ before = 0
    /\ calls = <<>>
    /\ redelivered = FALSE
    /\ old = [reg |-> <<>>, tc |-> <<>>, tcat |-> <<>>, last |-> <<>>]
    /\ hist = [created |-> {}, categories |-> {}, moved |-> {}, deleted |-> {},
               delIssued |-> {}, last |-> <<>>]
    /\ mu = 0
    /\ pc = [t \in Threads |-> "idle"]
    /\ arg = [t \in Threads |-> NoArg]
    /\ served = 0

\* Spec: one member's notifications, any pattern of failing calls.
Next == \E u \in OneUser, ch \in (0..MaxID) \cup {NullSnowflake} : onVoiceStateUpdate(u, ch)

Spec == Init /\ [][Next]_vars

\* One notification when the directory is reliable: no call fails, and the
\* left channel reports the members the Registry still has in it.
onVoiceStateUpdateReliable(u, ch) ==
    Deliver(u, ch,
            {Cardinality(Occupants(Store(userVoiceStates, u, ch),
                                   Lookup(userVoiceStates, u)))},
            TRUE)

ReliableNext ==
    \E u \in Users, ch \in (0..MaxID) \cup {NullSnowflake} :
        onVoiceStateUpdateReliable(u, ch)

\* LiveSpec: every member's notifications, a reliable directory, and every
\* notification the gateway has for the handler is processed.
LiveSpec == Init /\ [][ReliableNext]_vars /\ WF_vars(ReliableNext)

----------------------------------------------------------------------------
(* The handler run by concurrent invocations, lines 73-198 step by step *)

\* Channels the invocations that have not yet run lines 82-197 may create.
Pending ==
    LET N[S \in SUBSET Threads] ==
            IF S = {} THEN 0
            ELSE LET t == CHOOSE x \in S : TRUE
                 IN  N[S \ {t}] +
                     (IF pc[t] \in {"lock", "read", "write", "workflow"}
                      THEN Creates(arg[t].ch) ELSE 0)
    IN  N[Threads]

\* line 73: the gateway calls the handler with a notification
Invoke(t, u, ch) ==
    /\ pc[t] = "idle"
    /\ served < MaxNotifications
    /\ ch \in Targets
    /\ nextID + Pending + Creates(ch) - 1 <= MaxID
    /\ pc' = [pc EXCEPT ![t] = "lock"]
    /\ arg' = [arg EXCEPT ![t] = [NoArg EXCEPT !.user = u, !.ch = ch]]
    /\ served' = served + 1
    /\ UNCHANGED <<userVoiceStates, temporaryChannels, temporaryCategories,
                   channels, nextID, evt, before, calls, redelivered, old,
                   hist, mu>>

LockNoWait(t) ==
    /\ pc[t] = "lock"
    /\ mu' = t
    /\ pc' = [pc EXCEPT ![t] = "read"]
    /\ arg' = [arg EXCEPT ![t].seen = Shared]
    /\ UNCHANGED <<userVoiceStates, temporaryChannels, temporaryCategories,
                   channels, nextID, evt, before, calls, redelivered, old,
                   hist, served>>

\* line 74: h.mu.Lock() returns once the mutex is free
Lock(t) ==
    /\ pc[t] = "lock"
    /\ mu = 0
    /\ mu' = t
    /\ pc' = [pc EXCEPT ![t] = "read"]
    /\ arg' = [arg EXCEPT ![t].seen = Shared]
    /\ UNCHANGED <<userVoiceStates, temporaryChannels, temporaryCategories,
                   channels, nextID, evt, before, calls, redelivered, old,
                   hist, served>>

\* line 78
ReadRegistry(t) ==
    /\ pc[t] = "read"
    /\ arg' = [arg EXCEPT ![t].before = Lookup(userVoiceStates, arg[t].user)]
    /\ pc' = [pc EXCEPT ![t] = "write"]
    /\ UNCHANGED <<userVoiceStates, temporaryChannels, temporaryCategories,
                   channels, nextID, evt, before, calls, redelivered, old,
                   hist, mu, served>>

\* line 80
WriteRegistry(t) ==
    /\ pc[t] = "write"
    /\ userVoiceStates' = Store(userVoiceStates, arg[t].user, arg[t].ch)
    /\ pc' = [pc EXCEPT ![t] = "workflow"]
    /\ UNCHANGED <<temporaryChannels, temporaryCategories, channels, nextID,
                   evt, before, calls, redelivered, old, hist, mu, arg, served>>

\* The failure patterns of ConcSpec: no call fails, or the k-th does, k up
\* to the five calls of the longest workflow (lines 89, 116, 125, 135, 145).
ConcFailChoices == {{}} \cup {{k} : k \in 1..5}

\* lines 82-197, up to the return
Workflow(t) ==
    /\ pc[t] = "workflow"
    /\ \E rcp \in (IF IsLeave(arg[t].before, arg[t].ch)
                    THEN 0..MaxRecipients ELSE {0}) :
       \E fails \in ConcFailChoices :
       \E s \in {Dispatch(Entry, arg[t].before, arg[t].user, arg[t].ch,
                           fails, rcp)} :
           /\ Recorded(s, arg[t].user, arg[t].ch, arg[t].before,
                       arg[t].seen.reg)
           /\ arg' = [arg EXCEPT ![t].fails = fails, ![t].rcp = rcp]
    /\ pc' = [pc EXCEPT ![t] = "unlock"]
    /\ UNCHANGED <<userVoiceStates, mu, served>>

\* line 75: the deferred h.mu.Unlock() runs at every return
Unlock(t) ==
    /\ pc[t] = "unlock"
    /\ mu' = 0
    /\ pc' = [pc EXCEPT ![t] = "idle"]
    /\ arg' = [arg EXCEPT ![t] = NoArg]
    /\ UNCHANGED <<userVoiceStates, temporaryChannels, temporaryCategories,
                   channels, nextID, evt, before, calls, redelivered, old,
                   hist, served>>

ConcNext ==
    \E t \in Threads :
        \/ \E u \in Users, ch \in (0..MaxID) \cup {NullSnowflake} : Invoke(t, u, ch)
        \/ Lock(t)
        \/ ReadRegistry(t)
        \/ WriteRegistry(t)
        \/ Workflow(t)
        \/ Unlock(t)

\* ConcSpec: the gateway hands notifications of any member to invocations
\* that run at the same time, step by step.
ConcSpec == Init /\ [][ConcNext]_vars

----------------------------------------------------------------------------
(* The notification processed last, as the claims speak of it *)

None(id) == id = 0 \/ id = NullSnowflake

Processed == evt.user # ""

\* The Registry entry was 'none' and the notification names a channel.
JOIN == Processed /\ None(before) /\ ~None(evt.ch)

\* The Registry entry was a channel and the notification names none.
LEAVE == Processed /\ ~None(before) /\ None(evt.ch)

\* Both are channels, or both are 'none'.
MOVEorNOOP ==
    Processed /\ ((~None(before) /\ ~None(evt.ch)) \/ (None(before) /\ None(evt.ch)))

Idx(op) == {i \in 1..Len(calls) : calls[i].op = op}

AllOk == \A i \in 1..Len(calls) : calls[i].ok

\* The first call fetched the channel the notification is about, and succeeded.
Fetched(id) ==
    /\ Len(calls) >= 1
    /\ calls[1].op = "GetChannel" /\ calls[1].id = id /\ calls[1].ok

\* The name the directory has for the joined channel.
JoinedName == IF evt.ch \in DOMAIN channels THEN channels[evt.ch].name ELSE ""

----------------------------------------------------------------------------
(* C2: a JOIN into the clone-trigger channel whose directory calls all       *)
(* succeed issues GetChannel, then exactly one CreateChannel (voice, the     *)
(* trigger's guild and parent category), then exactly one MoveMember of the  *)
(* user into the returned channel, and the returned ID is then in            *)
(* temporaryChannels.                                                        *)
C2_CloneProvisioning ==
    (JOIN /\ JoinedName = CloneTriggerName /\ AllOk) =>
        /\ Len(calls) = 3
        /\ Fetched(evt.ch)
        /\ calls[2].op = "CreateChannel"
        /\ calls[2].type = "voice"
        /\ calls[2].guild = channels[evt.ch].guild
        /\ calls[2].parent = channels[evt.ch].parent
        /\ calls[3].op = "MoveMember"
        /\ calls[3].user = evt.user
        /\ calls[3].guild = channels[evt.ch].guild
        /\ calls[3].id = calls[2].ret
        /\ contains(temporaryChannels, calls[2].ret)
        /\ ~contains(old.tc, calls[2].ret)

C2_Witness ==
    /\ JOIN /\ JoinedName = CloneTriggerName /\ AllOk
    /\ Len(calls) = 3
    /\ IsValid(channels[evt.ch].parent)
    /\ contains(temporaryChannels, calls[2].ret)

(* C3: a JOIN into the "teams" channel whose directory calls all succeed     *)
(* issues, after the fetch, CreateChannel(category), CreateChannel(text,     *)
(* parent the new category), CreateChannel(voice, parent the new category)   *)
(* and MoveMember(user, new voice channel), in this order and once each;     *)
(* temporaryCategories then holds the voice channel's ID, not the category's.*)
C3_TeamsProvisioningOrder ==
    (JOIN /\ JoinedName = TeamsTriggerName /\ AllOk) =>
        /\ Len(calls) = 5
        /\ Fetched(evt.ch)
        /\ \A i \in 2..4 : calls[i].op = "CreateChannel"
                           /\ calls[i].guild = channels[evt.ch].guild
        /\ calls[2].type = "category"
        /\ calls[3].type = "text" /\ calls[3].parent = calls[2].ret
        /\ calls[4].type = "voice" /\ calls[4].parent = calls[2].ret
        /\ calls[5].op = "MoveMember"
        /\ calls[5].user = evt.user
        /\ calls[5].id = calls[4].ret
        /\ contains(temporaryCategories, calls[4].ret)
        /\ ~contains(temporaryCategories, calls[2].ret)
        /\ Len(temporaryCategories) = Len(old.tcat) + 1

C3_Witness ==
    /\ JOIN /\ JoinedName = TeamsTriggerName /\ AllOk
    /\ Len(calls) = 5
    /\ contains(temporaryCategories, calls[4].ret)

(* C4: a LEAVE from a channel c that is fetched and is in temporaryChannels: *)
(* if c reports no member, exactly one DeleteChannel is issued, it is for c, *)
(* and c is no longer in temporaryChannels; if c reports members, no         *)
(* DeleteChannel is issued and c is still in temporaryChannels.              *)
C4_StandaloneTeardownDecision ==
    (LEAVE /\ Fetched(before) /\ contains(old.tc, before)) =>
        IF calls[1].rcp = 0
        THEN /\ Cardinality(Idx("DeleteChannel")) = 1
             /\ \A i \in Idx("DeleteChannel") : calls[i].id = before
             /\ ~contains(temporaryChannels, before)
        ELSE /\ Idx("DeleteChannel") = {}
             /\ contains(temporaryChannels, before)

C4_Witness ==
    /\ LEAVE /\ Fetched(before) /\ contains(old.tc, before)
    /\ calls[1].rcp = 0
    /\ \E i \in Idx("DeleteChannel") : calls[i].id = before /\ calls[i].ok
    /\ ~contains(temporaryChannels, before)

C4_WitnessOccupied ==
    /\ LEAVE /\ Fetched(before) /\ contains(old.tc, before)
    /\ calls[1].rcp > 0
    /\ contains(temporaryChannels, before)

(* C5: on a JOIN into the clone-trigger channel, a failed CreateChannel is   *)
(* followed by no MoveMember, and if CreateChannel or MoveMember fails both  *)
(* tracker lists are what they were before the notification.                 *)
C5_CloneFailureLeavesTracker ==
    (JOIN /\ Fetched(evt.ch) /\ calls[1].name = CloneTriggerName) =>
        LET createFailed == \E i \in Idx("CreateChannel") : ~calls[i].ok
            moveFailed   == \E i \in Idx("MoveMember") : ~calls[i].ok
        IN  /\ createFailed => Idx("MoveMember") = {}
            /\ (createFailed \/ moveFailed) =>
                   /\ temporaryChannels = old.tc
                   /\ temporaryCategories = old.tcat

C5_Witness ==
    /\ JOIN /\ Fetched(evt.ch) /\ calls[1].name = CloneTriggerName
    /\ \E i \in Idx("CreateChannel") : calls[i].ok
    /\ \E i \in Idx("MoveMember") : ~calls[i].ok
    /\ temporaryChannels = old.tc

C5_WitnessCreate ==
    /\ JOIN /\ Fetched(evt.ch) /\ calls[1].name = CloneTriggerName
    /\ \E i \in Idx("CreateChannel") : ~calls[i].ok
    /\ Idx("MoveMember") = {}

----------------------------------------------------------------------------
(* C1: with a reliable directory and every notification processed, a channel *)
(* of temporaryChannels whose last connected member goes away is eventually  *)
(* the target of a DeleteChannel and leaves temporaryChannels.               *)

\* The notification processed last took the last member out of tracked c.
Emptied(c) ==
    /\ Processed
    /\ contains(old.tc, c)
    /\ before = c /\ evt.ch # c
    /\ Occupants(userVoiceStates, c) = {}

C1_TornDownOnceEmpty ==
    \A c \in FirstID..MaxID :
        Emptied(c) ~> (c \in hist.delIssued /\ ~contains(temporaryChannels, c))

C7_CategoryTeardownTrigger ==
    (LEAVE /\ Fetched(before) /\ ~None(calls[1].parent)
           /\ contains(old.tcat, before)) =>
        /\ Idx("ListChannels") # {}
        /\ \E i \in Idx("DeleteChannel") : calls[i].id = calls[1].parent

\* The fetch of category p, and the listing, both made and successful.
CategoryListedOk(p) ==
    /\ \E k \in Idx("GetChannel") : k > 1 /\ calls[k].id = p /\ calls[k].ok
    /\ \E l \in Idx("ListChannels") : calls[l].ok

(* C7 amended: a LEAVE from a fetched channel c with a non-null parent p, c  *)
(* in temporaryCategories, c reporting no member, the fetch of p and the     *)
(* listing of p's guild both succeeding: after the listing the handler       *)
(* issues DeleteChannel for every listed channel whose parent is p, in the   *)
(* listed order, then DeleteChannel for p, and nothing else.                 *)
C7_CategoryTeardownGuarded ==
    (LEAVE /\ Fetched(before) /\ ~None(calls[1].parent)
           /\ contains(old.tcat, before) /\ calls[1].rcp = 0
           /\ CategoryListedOk(calls[1].parent)) =>
        LET p    == calls[1].parent
            g    == CHOOSE k \in Idx("GetChannel") : k > 1 /\ calls[k].id = p
            l    == CHOOSE k \in Idx("ListChannels") : TRUE
            IsKid(x) == x[2] = p
            kids == SelectSeq(calls[l].listed, IsKid)
            rest == SubSeq(calls, l + 1, Len(calls))
        IN  /\ Cardinality(Idx("ListChannels")) = 1
            /\ g < l
            /\ calls[l].guild = calls[g].guild
            /\ Len(rest) = Len(kids) + 1
            /\ \A j \in 1..Len(rest) : rest[j].op = "DeleteChannel"
            /\ \A j \in 1..Len(kids) : rest[j].id = kids[j][1]
            /\ rest[Len(rest)].id = p

C7_Witness ==
    /\ LEAVE /\ Fetched(before) /\ ~None(calls[1].parent)
    /\ contains(old.tcat, before) /\ calls[1].rcp = 0
    /\ CategoryListedOk(calls[1].parent)
    /\ Cardinality(Idx("DeleteChannel")) = 3
    /\ \E i \in Idx("DeleteChannel") : ~calls[i].ok
    /\ calls[Len(calls)].id = calls[1].parent

(* C8: once the category's DeleteChannel was issued in the teardown of the   *)
(* group whose voice channel v was in temporaryCategories, v is no longer in *)
(* temporaryCategories.                                                      *)
C8_TeardownUntracksAnchor ==
    (LEAVE /\ Fetched(before) /\ contains(old.tcat, before)
           /\ \E i \in Idx("DeleteChannel") : calls[i].id = calls[1].parent) =>
        ~contains(temporaryCategories, before)

(* C9: a notification processed twice in a row is a NO-OP the second time:   *)
(* no directory call, and the Registry and both tracker lists are as the     *)
(* first processing left them.                                               *)
C9_RedeliveryIsNoOp ==
    redelivered =>
        /\ MOVEorNOOP
        /\ calls = <<>>
        /\ userVoiceStates = old.reg
        /\ temporaryChannels = old.tc
        /\ temporaryCategories = old.tcat

C9_Witness ==
    /\ redelivered
    /\ None(evt.ch)
    /\ calls = <<>>
    /\ temporaryCategories # <<>>

C9_WitnessJoin ==
    /\ redelivered
    /\ JoinedName = CloneTriggerName
    /\ calls = <<>>

(* C10: a notification whose previous and new channel are both channels      *)
(* (equal or not) or both 'none' issues no directory call and leaves both    *)
(* tracker lists as they were; of the Registry only that user's entry        *)
(* changes, to the notification's channel.                                   *)
C10_MoveAndNoOpFrame ==
    MOVEorNOOP =>
        /\ calls = <<>>
        /\ temporaryChannels = old.tc
        /\ temporaryCategories = old.tcat
        /\ DOMAIN userVoiceStates = DOMAIN old.reg \cup {evt.user}
        /\ userVoiceStates[evt.user] = evt.ch
        /\ \A w \in DOMAIN old.reg \ {evt.user} : userVoiceStates[w] = old.reg[w]

C10_Witness ==
    /\ MOVEorNOOP
    /\ before # evt.ch
    /\ contains(temporaryChannels, before)
    /\ JoinedName = CloneTriggerName
    /\ calls = <<>>

----------------------------------------------------------------------------
(* C11: a JOIN into a channel named neither as the clone trigger nor        *)
(* "teams" issues no CreateChannel and no MoveMember and leaves both tracker *)
(* lists as they were; CreateChannel and MoveMember are issued only while    *)
(* processing a JOIN into a channel with one of the two trigger names.       *)
C11_NonTriggerJoin ==
    LET triggers == {CloneTriggerName, TeamsTriggerName}
        provisioning == Idx("CreateChannel") \cup Idx("MoveMember")
    IN  /\ (JOIN /\ JoinedName \notin triggers) =>
               /\ provisioning = {}
               /\ temporaryChannels = old.tc
               /\ temporaryCategories = old.tcat
        /\ provisioning # {} =>
               /\ JOIN
               /\ Fetched(evt.ch)
               /\ calls[1].name \in triggers

C11_Witness ==
    /\ JOIN /\ JoinedName = "general"
    /\ Fetched(evt.ch)
    /\ Len(calls) = 1
    /\ temporaryChannels # <<>>
    /\ temporaryChannels = old.tc

(* C14: in a category teardown, after a successful listing, DeleteChannel is *)
(* issued for every listed channel whose parent is the category and then for *)
(* the category, whichever of these deletions fail: a failed deletion of one *)
(* child is followed by the deletions of the remaining children and of the   *)
(* category, and the DeleteChannel calls number the listed children plus one.*)
C14_BestEffortCleanup ==
    \A l \in Idx("ListChannels") :
        calls[l].ok =>
            LET p    == calls[l - 1].id
                kids == {k \in 1..Len(calls[l].listed) : calls[l].listed[k][2] = p}
                dels == Idx("DeleteChannel")
            IN  /\ calls[l - 1].op = "GetChannel" /\ calls[l - 1].site = 178
                /\ Cardinality(dels) = Cardinality(kids) + 1
                /\ \A k \in kids :
                       \E i \in dels : i > l /\ calls[i].site = 187
                                       /\ calls[i].id = calls[l].listed[k][1]
                /\ calls[Len(calls)].op = "DeleteChannel"
                /\ calls[Len(calls)].site = 190
                /\ calls[Len(calls)].id = p
                /\ \A i \in dels : ~calls[i].ok =>
                       \A j \in (i + 1)..Len(calls) : calls[j].op = "DeleteChannel"

C14_Witness ==
    \E l \in Idx("ListChannels") :
        /\ calls[l].ok
        /\ Len(calls) = l + 3
        /\ ~calls[l + 1].ok /\ calls[l + 1].site = 187
        /\ calls[l + 2].ok /\ calls[l + 2].site = 187
        /\ calls[l + 3].site = 190

(* C15: on a JOIN into the "teams" channel, when one of CreateChannel        *)
(* (category), CreateChannel(text), CreateChannel(voice), MoveMember fails,  *)
(* it is the last call of the notification, no DeleteChannel is issued for   *)
(* the channels already created, and both tracker lists are what they were.  *)
C15_TeamsPartialFailure ==
    (JOIN /\ Fetched(evt.ch) /\ calls[1].name = TeamsTriggerName) =>
        /\ Len(calls) <= 5
        /\ \A k \in 2..Len(calls) :
               /\ calls[k].site = <<116, 125, 135, 145>>[k - 1]
               /\ ~calls[k].ok =>
                      /\ Len(calls) = k
                      /\ Idx("DeleteChannel") = {}
                      /\ temporaryCategories = old.tcat
                      /\ temporaryChannels = old.tc
                      /\ \A j \in 2..(k - 1) : calls[j].ret \in DOMAIN channels

C15_Witness ==
    /\ JOIN /\ Fetched(evt.ch) /\ calls[1].name = TeamsTriggerName
    /\ Len(calls) = 5
    /\ calls[4].ok /\ ~calls[5].ok
    /\ calls[4].ret \in DOMAIN channels
    /\ temporaryCategories = old.tcat

(* C16: when the last occupant of a channel c of temporaryChannels goes      *)
(* straight into another channel, that notification issues no DeleteChannel  *)
(* and c stays in temporaryChannels; a DeleteChannel for c is issued, and c  *)
(* leaves the directory, only in a step that processes a LEAVE whose         *)
(* previous channel is c.                                                    *)
C16_MoveOutGap ==
    [][\A c \in FirstID..MaxID :
          contains(temporaryChannels, c) =>
              /\ (/\ before' = c /\ ~None(evt'.ch) /\ evt'.ch # c
                  /\ Occupants(userVoiceStates', c) = {}) =>
                     /\ Idx("DeleteChannel")' = {}
                     /\ contains(temporaryChannels', c)
                     /\ c \in DOMAIN channels'
              /\ (\/ \E i \in Idx("DeleteChannel")' : calls'[i].id = c
                  \/ c \in DOMAIN channels /\ c \notin DOMAIN channels'
                  \/ ~contains(temporaryChannels', c)) =>
                     LEAVE' /\ before' = c]_vars

C16_Witness ==
    /\ Processed
    /\ contains(old.tc, before) /\ contains(temporaryChannels, before)
    /\ before \in DOMAIN channels
    /\ JoinedName = "general"
    /\ Occupants(userVoiceStates, before) = {}
    /\ calls = <<>>

Ids(slice) == {slice[i] : i \in 1..Len(slice)}

\* A successful CreateChannel of a voice channel returned id and the call
\* after it is a successful MoveMember into id.
CreatedAndMoved(id) ==
    \E i \in Idx("CreateChannel") :
        /\ calls[i].ok /\ calls[i].ret = id /\ calls[i].type = "voice"
        /\ i < Len(calls)
        /\ calls[i + 1].op = "MoveMember" /\ calls[i + 1].ok
        /\ calls[i + 1].id = id

(* C17: an ID enters temporaryChannels or temporaryCategories only in a JOIN *)
(* in which a successful CreateChannel returned the voice channel of that ID *)
(* and the MoveMember after it succeeded; an ID leaves either list only in a *)
(* LEAVE in which DeleteChannel was issued, successfully or not, for the     *)
(* channel or category torn down; a notification that is neither changes     *)
(* neither list.                                                             *)
C17_TrackerMutationDiscipline ==
    Processed =>
        /\ \A id \in (Ids(temporaryChannels) \ Ids(old.tc))
                     \cup (Ids(temporaryCategories) \ Ids(old.tcat)) :
               JOIN /\ CreatedAndMoved(id)
        /\ \A id \in Ids(old.tc) \ Ids(temporaryChannels) :
               LEAVE /\ \E i \in Idx("DeleteChannel") :
                            calls[i].site = 168 /\ calls[i].id = id
        /\ \A id \in Ids(old.tcat) \ Ids(temporaryCategories) :
               LEAVE /\ \E i \in Idx("DeleteChannel") : calls[i].site = 190
        /\ \/ temporaryChannels = old.tc
           \/ \E id \in Ids(temporaryChannels) :
                  temporaryChannels = Append(old.tc, id)
           \/ \E id \in Ids(old.tc) : temporaryChannels = remove(old.tc, id)
        /\ \/ temporaryCategories = old.tcat
           \/ \E id \in Ids(temporaryCategories) :
                  temporaryCategories = Append(old.tcat, id)
           \/ \E id \in Ids(old.tcat) : temporaryCategories = remove(old.tcat, id)
        /\ ~(JOIN \/ LEAVE) =>
               temporaryChannels = old.tc /\ temporaryCategories = old.tcat

C17_Witness ==
    /\ LEAVE
    /\ Ids(old.tc) \ Ids(temporaryChannels) = {before}
    /\ \E i \in Idx("DeleteChannel") : calls[i].id = before /\ ~calls[i].ok
    /\ temporaryCategories # <<>>

(* C18: CreateChannel returning a fresh ID on every success, no ID is in     *)
(* both temporaryChannels and temporaryCategories and none occurs twice in   *)
(* either list.                                                              *)
C18_TrackerWellFormed ==
    /\ Ids(temporaryChannels) \cap Ids(temporaryCategories) = {}
    /\ Cardinality(Ids(temporaryChannels)) = Len(temporaryChannels)
    /\ Cardinality(Ids(temporaryCategories)) = Len(temporaryCategories)

C18_Witness ==
    /\ Len(temporaryChannels) >= 2
    /\ hist.delIssued # {}
    /\ JOIN /\ temporaryChannels # old.tc

(* C19: every DeleteChannel is for a voice channel the clone branch created, *)
(* for a category the teams branch created, or for a channel listed with     *)
(* such a category as its parent; never for a channel that was there before  *)
(* the handler created any.                                                  *)
C19_DeletesOnlyOwned ==
    \A i \in Idx("DeleteChannel") :
        /\ calls[i].id \notin DOMAIN InitChannels
        /\ \/ calls[i].site = 168 /\ calls[i].id \in hist.created
           \/ calls[i].site = 190 /\ calls[i].id \in hist.categories
           \/ /\ calls[i].site = 187
              /\ \E l \in Idx("ListChannels") : \E k \in 1..Len(calls[l].listed) :
                     /\ l < i
                     /\ calls[l].listed[k][1] = calls[i].id
                     /\ calls[l].listed[k][2] \in hist.categories

C19_Witness ==
    /\ \E i \in Idx("DeleteChannel") : calls[i].site = 187 /\ calls[i].ok
    /\ \E i \in Idx("DeleteChannel") : calls[i].site = 190 /\ calls[i].ok
    /\ hist.deleted # {}

(* C20: a LEAVE from a fetched channel of temporaryCategories that reports   *)
(* members, or whose parent category is not fetched successfully, issues no  *)
(* ListChannels and no DeleteChannel and leaves temporaryCategories as it    *)
(* was.                                                                      *)
C20_TeardownGuardedByEmptiness ==
    (LEAVE /\ Fetched(before) /\ contains(old.tcat, before)
           /\ (\/ calls[1].rcp > 0
               \/ ~\E k \in Idx("GetChannel") : calls[k].site = 178 /\ calls[k].ok)) =>
        /\ Idx("ListChannels") = {}
        /\ Idx("DeleteChannel") = {}
        /\ temporaryCategories = old.tcat
        /\ channels[before].parent \in DOMAIN channels =>
               channels[before].parent \in hist.categories

C20_Witness ==
    /\ LEAVE /\ Fetched(before) /\ contains(old.tcat, before)
    /\ calls[1].rcp > 0
    /\ Len(calls) = 2
    /\ calls[2].site = 178 /\ calls[2].ok
    /\ calls[2].type = "category"

----------------------------------------------------------------------------
\* Invocation t is between taking h.mu and giving it back.
InHandler(t) == pc[t] \in {"read", "write", "workflow", "unlock"}

\* What the handler, run alone on the state invocation t found when it took
\* h.mu, leaves of the tracker lists and the directory.
Alone(t) ==
    Dispatch([tc |-> arg[t].seen.tc, tcat |-> arg[t].seen.tcat,
              dir |-> arg[t].seen.dir, next |-> arg[t].seen.next,
              calls |-> <<>>, done |-> FALSE],
             Lookup(arg[t].seen.reg, arg[t].user), arg[t].user, arg[t].ch,
             arg[t].fails, arg[t].rcp)

(* C12: of the invocations running at the same time at most one is between   *)
(* taking the mutex and its return; from its Registry read to its return no  *)
(* other invocation's step changes the Registry, the tracker lists or the    *)
(* directory, and at its return they are what the handler run alone on the   *)
(* state it found would leave, so the notifications take effect in a serial  *)
(* order.                                                                    *)
C12_MutualExclusion ==
    /\ \A t1, t2 \in Threads : (InHandler(t1) /\ InHandler(t2)) => t1 = t2
    /\ \A t \in Threads :
           /\ InHandler(t) => mu = t
           /\ pc[t] \in {"read", "write"} => Shared = arg[t].seen
           /\ pc[t] = "write" =>
                  arg[t].before = Lookup(arg[t].seen.reg, arg[t].user)
           /\ pc[t] = "workflow" =>
                  Shared = [arg[t].seen EXCEPT
                               !.reg = Store(@, arg[t].user, arg[t].ch)]
           /\ pc[t] = "unlock" =>
                  LET s == Alone(t)
                  IN  /\ userVoiceStates =
                             Store(arg[t].seen.reg, arg[t].user, arg[t].ch)
                      /\ temporaryChannels = s.tc
                      /\ temporaryCategories = s.tcat
                      /\ channels = s.dir
                      /\ nextID = s.next
                      /\ calls = s.calls

C12_Witness ==
    \E t1, t2 \in Threads :
        /\ pc[t1] = "unlock" /\ pc[t2] = "lock"
        /\ arg[t1].user # arg[t2].user
        /\ arg[t1].seen.tc # <<>>
        /\ Len(calls) >= 3
        /\ temporaryChannels # arg[t1].seen.tc

\* JOIN, LEAVE or neither, from the channel b of the user's previous
\* notification and the channel ch of this one.
Kind(b, ch) ==
    IF None(b) /\ ~None(ch) THEN "JOIN"
    ELSE IF ~None(b) /\ None(ch) THEN "LEAVE"
    ELSE "NONE"

(* C13: after a notification of user u is processed, whichever directory     *)
(* calls failed, the Registry has the notification's channel for u and what  *)
(* it had before for every other user; the previous channel the handler      *)
(* classified with is the channel of u's preceding notification ('none' if   *)
(* there is none), and the branch it ran is the one of that pair: the fetch  *)
(* of the new channel for a JOIN, of the previous one for a LEAVE, no call   *)
(* otherwise.                                                                *)
C13_RegistryLastObserved ==
    \A t \in Threads : pc[t] = "unlock" =>
        LET u == arg[t].user
            b == Lookup(old.last, u)
        IN  /\ evt = [user |-> u, ch |-> arg[t].ch]
            /\ u \in DOMAIN userVoiceStates
            /\ Lookup(userVoiceStates, u) = evt.ch
            /\ \A w \in Users \ {u} :
                   /\ w \in DOMAIN userVoiceStates <=> w \in DOMAIN old.reg
                   /\ Lookup(userVoiceStates, w) = Lookup(old.reg, w)
            /\ before = b
            /\ \A w \in Users : Lookup(userVoiceStates, w) = Lookup(hist.last, w)
            /\ Kind(b, evt.ch) = "JOIN" =>
                   calls # <<>> /\ calls[1].site = 89 /\ calls[1].id = evt.ch
            /\ Kind(b, evt.ch) = "LEAVE" =>
                   calls # <<>> /\ calls[1].site = 160 /\ calls[1].id = b
            /\ Kind(b, evt.ch) = "NONE" => calls = <<>>

C13_Witness ==
    /\ \E t \in Threads : pc[t] = "unlock"
    /\ Kind(Lookup(old.last, evt.user), evt.ch) = "JOIN"
    /\ \E i \in 1..Len(calls) : ~calls[i].ok
    /\ Len(calls) >= 3
    /\ \E w \in DOMAIN old.reg \ {evt.user} : ~None(old.reg[w])
    /\ Lookup(userVoiceStates, evt.user) = evt.ch
    /\ \E t \in Threads : pc[t] = "lock" /\ arg[t].user # evt.user

====
